---- MODULE Spec2Model ----
(***************************************************************************)
(* A model of bt_helper.py: BtDbusManager (object enumeration, device      *)
(* filtering, scan with its GObject timer), BtAdapter.ensure_powered and   *)
(* BtDevice.pair with its two D-Bus completion callbacks, running against   *)
(* a BlueZ service whose adapters and devices change on their own.          *)
(*                                                                         *)
(* The program is single threaded: one caller runs one operation at a      *)
(* time (pc), and callbacks run only while the GObject main loop runs.     *)
(* The BlueZ service is another process: its state (powered, discovering,  *)
(* catalog) may change between any two steps of the program.               *)
(***************************************************************************)
EXTENDS Integers, Sequences, FiniteSets, TLC

(* ---------------------------------------------------------------------- *)
(* Program constants                                                       *)
(* ---------------------------------------------------------------------- *)
BT_ANY == 0
BT_KEYBOARD == 9536
ADAPTER_IFACE == "org.bluez.Adapter1"
DEVICE_IFACE == "org.bluez.Device1"

(* ---------------------------------------------------------------------- *)
(* Bounds of the model                                                     *)
(* ---------------------------------------------------------------------- *)
MaxSignals == 2      \* signals delivered to the handlers during one wait
MaxScans == 2        \* scan() calls counted on one manager
MaxFilters == 2      \* entries of a filters dictionary
MaxEpCalls == 2      \* successive ensure_powered calls that are counted
MaxNest == 1         \* blocking calls made from inside a callback, nested

Adapters == {"hci0", "hci1"}
DevPaths == {"dev_A", "dev_B"}
BT_PHONE == BT_KEYBOARD + 4   \* some other device class
Reasons == {"AuthenticationFailed", "NoReply"}

(* Property mappings a Device1 interface can carry.  BlueZ always gives   *)
(* Address and Paired; Class and Name are optional.                        *)
Restrict(f, keys) == [k \in keys |-> f[k]]
DevProps ==
    { Restrict([Address |-> 1, Paired |-> p, Class |-> BT_KEYBOARD, Name |-> 7],
               {"Address", "Paired"} \cup opt) :
        p \in {0, 1}, opt \in SUBSET {"Class", "Name"} }
(* the devices that show up while scanning and pairing are modelled        *)
SeenProps ==
    { Restrict([Address |-> 1, Paired |-> 0, Class |-> BT_KEYBOARD, Name |-> 7], keys) :
        keys \in { {"Address", "Paired", "Class", "Name"}, {"Address", "Paired"} } }

(* The properties of the one Adapter1 interface of an adapter object.      *)
AdapterProps(p) == [Powered |-> IF p THEN 1 ELSE 0]

Categories == {BT_ANY, BT_KEYBOARD, BT_PHONE}
FilterEntries == { <<"Paired", 0>>, <<"Paired", 1>>, <<"Name", 7>>, <<"Class", BT_KEYBOARD>> }

(* filters dictionaries, in iteration order: no key twice                  *)
FilterDicts ==
    { f \in UNION { [1..n -> FilterEntries] : n \in 0..MaxFilters } :
        \A i, j \in 1..Len(f) : i # j => f[i][1] # f[j][1] }

(* what a call hands back: None, as no function here has a return         *)
(* statement; the other kinds are what a caller could be given             *)
NoResult == [kind |-> "None", reason |-> "", devices |-> {}]

VARIABLES
    powered,       \* BlueZ: Powered property of each adapter
    discovering,   \* BlueZ: adapters on which this client's discovery is active
    catalog,       \* BlueZ: device path -> properties of its Device1 interface
    loopRunning,   \* self._main_loop is inside run()
    timerArmed,    \* number of GObject timeout sources armed for _scan_timeout
    subs,          \* number of signal receivers registered on the bus
    pc,            \* where the caller's single thread is
    todo,          \* adapters or devices the running for loop has not reached
    op,            \* the operation called last and how it ended
    ret,           \* the value the last returned call handed back
    log,           \* requests and events of the running operation, in order
    pairCb,        \* which completion callback of Pair() has run
    scans,         \* scan() calls made on this manager
    sigSeen,       \* signals delivered to the handlers during this wait
    cb,            \* the callback the main loop is running, if any
    cbTodo,        \* adapters the for loop of _scan_timeout has not reached
    gbd,           \* get_bt_devices: arguments, snapshot, reads and yields
    ep,            \* ensure_powered: the current run of successive calls
    stack          \* calls suspended in run() below the one that is running

vars == << powered, discovering, catalog, loopRunning, timerArmed, subs, pc,
           todo, op, ret, log, pairCb, scans, sigSeen, cb, cbTodo, gbd, ep,
           stack >>

bluez == << powered, discovering, catalog >>

EmptyMap == [x \in {} |-> 0]
NoGbd == [category |-> BT_ANY, filters |-> << >>, snapshot |-> {},
          read |-> EmptyMap, yielded |-> {}, keyErrors |-> {}]
NoEp == [adapter |-> "", calls |-> 0, sets |-> << >>, initPowered |-> FALSE]
NoCb == [kind |-> "none", reason |-> ""]
NoOp == [name |-> "none", outcome |-> "none", arg |-> ""]

Ev(e, x) == [e |-> e, x |-> x]

Init ==
    /\ powered = [a \in Adapters |-> FALSE]
    /\ discovering = {}
    /\ catalog = EmptyMap
    /\ loopRunning = FALSE
    /\ timerArmed = 0
    /\ subs = 0
    /\ pc = "idle"
    /\ todo = {}
    /\ op = NoOp
    /\ ret = NoResult
    /\ log = << >>
    /\ pairCb = NoCb
    /\ scans = 0
    /\ sigSeen = 0
    /\ cb = "none"
    /\ cbTodo = {}
    /\ gbd = NoGbd
    /\ ep = NoEp
    /\ stack = << >>

(* ---------------------------------------------------------------------- *)
(* BtDbusManager._get_objects_by_iface                                     *)
(* ---------------------------------------------------------------------- *)
(* GetManagedObjects(): object path -> interface name -> properties        *)
ManagedObjects ==
    [ p \in Adapters \cup DOMAIN catalog |->
        IF p \in Adapters
        THEN [i \in {ADAPTER_IFACE} |-> AdapterProps(powered[p])]
        ELSE [i \in {DEVICE_IFACE} |-> catalog[p]] ]

(* dict.get(iface_name) followed by the truth test of `if`: an interface   *)
(* that is missing, or whose property dictionary is empty, is not taken.   *)
Truthy(ifaces, iface_name) ==
    /\ iface_name \in DOMAIN ifaces
    /\ DOMAIN ifaces[iface_name] # {}

GetObjectsByIface(iface_name) ==
    { p \in DOMAIN ManagedObjects : Truthy(ManagedObjects[p], iface_name) }

(* ---------------------------------------------------------------------- *)
(* The BlueZ methods, as the service answers them                          *)
(* ---------------------------------------------------------------------- *)
(* StartDiscovery() fails with NotReady on an adapter that is off          *)
StartDiscoveryFails(a) == ~powered[a]
(* StopDiscovery() fails when this client has no discovery on the adapter  *)
StopDiscoveryFails(a) == a \notin discovering

(* ---------------------------------------------------------------------- *)
(* BtDbusManager.wait / resume                                             *)
(* ---------------------------------------------------------------------- *)
(* self._main_loop.run() hands control back once the loop was quit and the *)
(* callback that quit it has returned                                      *)
WaitReturns == ~loopRunning /\ cb = "none"
(* callbacks are dispatched one at a time, by a loop that is running, and  *)
(* only while the program is inside run()                                  *)
WaitStates == {"scan_wait", "pair_wait"}
Dispatching == loopRunning /\ cb = "none" /\ pc \in WaitStates

Called(name, arg) == [name |-> name, outcome |-> "running", arg |-> arg]
Ended(outcome) == [op EXCEPT !.outcome = outcome]

(* ---------------------------------------------------------------------- *)
(* BtDbusManager.scan                                                      *)
(* ---------------------------------------------------------------------- *)
ScanBegin ==
    /\ pc = "idle"
    /\ scans < MaxScans
    /\ scans' = scans + 1
    /\ subs' = subs + 2
    /\ todo' = GetObjectsByIface(ADAPTER_IFACE)
    /\ pc' = "scan_for"
    /\ op' = Called("scan", "")
    /\ log' = << Ev("add_signal_receiver", "InterfacesAdded"),
                 Ev("add_signal_receiver", "PropertiesChanged") >>
    /\ ret' = NoResult
    /\ pairCb' = NoCb
    /\ sigSeen' = 0
    /\ gbd' = NoGbd
    /\ ep' = NoEp
    /\ UNCHANGED << stack, bluez, loopRunning, timerArmed, cb, cbTodo >>

(* one turn of the for loop: StopDiscovery() with its DBusException        *)
(* swallowed, then StartDiscovery() outside any try                        *)
ScanDiscover(a) ==
    /\ pc = "scan_for"
    /\ a \in todo
    /\ IF StartDiscoveryFails(a)
       THEN /\ discovering' = discovering \ {a}
            /\ log' = log \o << Ev("StopDiscovery", a), Ev("StartDiscovery", a),
                                Ev("raise", "scan") >>
            /\ todo' = {}
            /\ pc' = "idle"
            /\ op' = Ended("raised")
       ELSE /\ discovering' = discovering \cup {a}
            /\ log' = log \o << Ev("StopDiscovery", a), Ev("StartDiscovery", a) >>
            /\ todo' = todo \ {a}
            /\ UNCHANGED << pc, op >>
    /\ UNCHANGED << stack, powered, catalog, loopRunning, timerArmed, subs, ret, pairCb,
                    scans, sigSeen, cb, cbTodo, gbd, ep >>

(* scan() as it would be with the timer armed inside the for loop          *)
ScanArm_Early ==
    /\ pc = "scan_for"
    /\ timerArmed' = timerArmed + 1
    /\ loopRunning' = TRUE
    /\ pc' = "scan_wait"
    /\ log' = log \o << Ev("timeout_add", "_scan_timeout"), Ev("run", "") >>
    /\ UNCHANGED << stack, bluez, subs, todo, op, ret, pairCb, scans, sigSeen, cb,
                    cbTodo, gbd, ep >>

(* GObject.timeout_add_seconds(timeout, self._scan_timeout); run()         *)
ScanArm ==
    /\ pc = "scan_for"
    /\ todo = {}
    /\ timerArmed' = timerArmed + 1
    /\ loopRunning' = TRUE
    /\ pc' = "scan_wait"
    /\ log' = log \o << Ev("timeout_add", "_scan_timeout"), Ev("run", "") >>
    /\ UNCHANGED << stack, bluez, subs, todo, op, ret, pairCb, scans, sigSeen, cb,
                    cbTodo, gbd, ep >>

(* run() has returned: scan() has no return statement                      *)
ScanReturn ==
    /\ pc = "scan_wait"
    /\ WaitReturns
    /\ pc' = "idle"
    /\ op' = Ended("returned")
    /\ ret' = NoResult
    /\ UNCHANGED << stack, bluez, loopRunning, timerArmed, subs, todo, log, pairCb,
                    scans, sigSeen, cb, cbTodo, gbd, ep >>

(* ---------------------------------------------------------------------- *)
(* BtDbusManager._scan_timeout, called by the main loop when a timeout     *)
(* source is due.  The source is removed after the call: the callback      *)
(* returns None, and a callback that raises counts as returning False.     *)
(* ---------------------------------------------------------------------- *)
ScanTimeoutFire ==
    /\ Dispatching
    /\ timerArmed > 0
    /\ timerArmed' = timerArmed - 1
    /\ cb' = "_scan_timeout"
    /\ cbTodo' = GetObjectsByIface(ADAPTER_IFACE)
    /\ log' = log \o << Ev("_scan_timeout", "") >>
    /\ UNCHANGED << stack, bluez, loopRunning, subs, pc, todo, op, ret, pairCb, scans,
                    sigSeen, gbd, ep >>

(* one turn of its for loop: StopDiscovery() outside any try.  An          *)
(* exception leaves the callback; the loop prints it and goes on running.  *)
ScanTimeoutStop(a) ==
    /\ cb = "_scan_timeout"
    /\ a \in cbTodo
    /\ IF StopDiscoveryFails(a)
       THEN /\ log' = log \o << Ev("StopDiscovery", a), Ev("raise", "_scan_timeout") >>
            /\ cb' = "none"
            /\ cbTodo' = {}
            /\ UNCHANGED discovering
       ELSE /\ log' = log \o << Ev("StopDiscovery", a) >>
            /\ discovering' = discovering \ {a}
            /\ cbTodo' = cbTodo \ {a}
            /\ UNCHANGED cb
    /\ UNCHANGED << stack, powered, catalog, loopRunning, timerArmed, subs, pc, todo, op,
                    ret, pairCb, scans, sigSeen, gbd, ep >>

(* self._main_loop.quit(), the last statement of the callback              *)
ScanTimeoutQuit ==
    /\ cb = "_scan_timeout"
    /\ cbTodo = {}
    /\ loopRunning' = FALSE
    /\ cb' = "none"
    /\ log' = log \o << Ev("quit", "_scan_timeout") >>
    /\ UNCHANGED << stack, bluez, timerArmed, subs, pc, todo, op, ret, pairCb, scans,
                    sigSeen, cbTodo, gbd, ep >>

(* ---------------------------------------------------------------------- *)
(* BtDevice.pair and its completion callbacks                              *)
(* ---------------------------------------------------------------------- *)
(* self._if.Pair(reply_handler=, error_handler=); self._bt_mgr.wait()      *)
PairBegin(d) ==
    /\ pc = "idle"
    /\ pc' = "pair_wait"
    /\ loopRunning' = TRUE
    /\ op' = Called("pair", d)
    /\ log' = << Ev("Pair", d), Ev("run", "") >>
    /\ ret' = NoResult
    /\ pairCb' = NoCb
    /\ sigSeen' = 0
    /\ gbd' = NoGbd
    /\ ep' = NoEp
    /\ UNCHANGED << stack, bluez, timerArmed, subs, todo, scans, cb, cbTodo >>

(* _pair_ok as it would be with resume() ahead of the log line            *)
PairOk_QuitFirst ==
    /\ pc = "pair_wait"
    /\ Dispatching
    /\ pairCb.kind = "none"
    /\ op.arg \in DOMAIN catalog
    /\ pairCb' = [kind |-> "ok", reason |-> ""]
    /\ log' = log \o << Ev("_pair_ok", ""), Ev("quit", "_pair_ok"),
                        Ev("logger.info", "successfully paired") >>
    /\ loopRunning' = FALSE
    /\ UNCHANGED << stack, bluez, timerArmed, subs, pc, todo, op, ret,
                    scans, sigSeen, cb, cbTodo, gbd, ep >>

(* BlueZ answers the Pair() call of a device it knows with success         *)
PairOk ==
    /\ pc = "pair_wait"
    /\ Dispatching
    /\ pairCb.kind = "none"
    /\ op.arg \in DOMAIN catalog
    /\ pairCb' = [kind |-> "ok", reason |-> ""]
    /\ log' = log \o << Ev("_pair_ok", ""), Ev("logger.info", "successfully paired"),
                        Ev("quit", "_pair_ok") >>
    /\ loopRunning' = FALSE
    /\ UNCHANGED << stack, bluez, timerArmed, subs, pc, todo, op, ret,
                    scans, sigSeen, cb, cbTodo, gbd, ep >>

(* BlueZ, or the D-Bus library on its behalf, answers with an error        *)
PairError(reason) ==
    /\ pc = "pair_wait"
    /\ Dispatching
    /\ pairCb.kind = "none"
    /\ pairCb' = [kind |-> "error", reason |-> reason]
    /\ log' = log \o << Ev("_pair_error", reason), Ev("logger.warning", reason),
                        Ev("quit", "_pair_error") >>
    /\ loopRunning' = FALSE
    /\ UNCHANGED << stack, bluez, timerArmed, subs, pc, todo, op, ret, scans, sigSeen,
                    cb, cbTodo, gbd, ep >>

(* pair() as it would be without the wait: it goes on to Connect() and     *)
(* returns while the main loop has not been quit                           *)
PairResume_NoWait(connectOk) ==
    /\ pc = "pair_wait"
    /\ log' = log \o << Ev("Connect", op.arg) >>
    /\ pc' = "idle"
    /\ op' = Ended("returned")
    /\ ret' = NoResult
    /\ UNCHANGED << stack, bluez, loopRunning, timerArmed, subs, todo, pairCb, scans,
                    sigSeen, cb, cbTodo, gbd, ep >>

(* pair() as it would be with Connect() outside the try: its              *)
(* DBusException leaves pair()                                             *)
PairResume_NoTry(connectOk) ==
    /\ pc = "pair_wait"
    /\ WaitReturns
    /\ log' = log \o << Ev("Connect", op.arg) >>
                  \o (IF connectOk THEN << >> ELSE << Ev("raise", "pair") >>)
    /\ pc' = "idle"
    /\ op' = Ended(IF connectOk THEN "returned" ELSE "raised")
    /\ ret' = NoResult
    /\ UNCHANGED << stack, bluez, loopRunning, timerArmed, subs, todo, pairCb, scans,
                    sigSeen, cb, cbTodo, gbd, ep >>

(* wait() has returned: Connect() inside try/except DBusException, and     *)
(* the end of the function, which has no return statement                  *)
PairResume(connectOk) ==
    /\ pc = "pair_wait"
    /\ WaitReturns
    /\ log' = log \o << Ev("Connect", op.arg) >>
                  \o (IF connectOk THEN << >>
                      ELSE << Ev("logging.error", "Failed to connect") >>)
    /\ pc' = "idle"
    /\ op' = Ended("returned")
    /\ ret' = NoResult
    /\ UNCHANGED << stack, bluez, loopRunning, timerArmed, subs, todo, pairCb, scans,
                    sigSeen, cb, cbTodo, gbd, ep >>

(* ---------------------------------------------------------------------- *)
(* The module level signal handlers: each only logs                        *)
(* ---------------------------------------------------------------------- *)
(* the state of the main loop after the handler has run                    *)
(* a handler that would end the wait when a device shows up                *)
interfaces_added_quits(running) == FALSE
interfaces_added(running) == running
properties_changed(running) == running

(* a signal reaches its handler when a receiver is registered and the      *)
(* main loop is dispatching                                                *)
Delivered == Dispatching /\ subs > 0
Counted == IF sigSeen < MaxSignals THEN sigSeen + 1 ELSE sigSeen

(* ---------------------------------------------------------------------- *)
(* BlueZ and the world around it                                           *)
(* ---------------------------------------------------------------------- *)
(* a device is discovered: InterfacesAdded                                 *)
EnvDeviceFound(d, props) ==
    /\ discovering # {}
    /\ d \notin DOMAIN catalog
    /\ catalog' = [x \in DOMAIN catalog \cup {d} |-> IF x = d THEN props ELSE catalog[x]]
    /\ IF Delivered
       THEN /\ loopRunning' = interfaces_added(loopRunning)
            /\ sigSeen' = Counted
       ELSE UNCHANGED << loopRunning, sigSeen >>
    /\ UNCHANGED << stack, powered, discovering, timerArmed, subs, pc, todo, op, ret, log,
                    pairCb, scans, cb, cbTodo, gbd, ep >>

(* a property of a device changes: PropertiesChanged on Device1            *)
EnvDeviceChanged(d, props) ==
    /\ d \in DOMAIN catalog
    /\ props # catalog[d]
    /\ catalog' = [catalog EXCEPT ![d] = props]
    /\ IF Delivered
       THEN /\ loopRunning' = properties_changed(loopRunning)
            /\ sigSeen' = Counted
       ELSE UNCHANGED << loopRunning, sigSeen >>
    /\ UNCHANGED << stack, powered, discovering, timerArmed, subs, pc, todo, op, ret, log,
                    pairCb, scans, cb, cbTodo, gbd, ep >>

(* BlueZ drops a device: InterfacesRemoved, which has no receiver          *)
EnvDeviceRemoved(d) ==
    /\ d \in DOMAIN catalog
    /\ catalog' = [x \in DOMAIN catalog \ {d} |-> catalog[x]]
    /\ UNCHANGED << stack, powered, discovering, loopRunning, timerArmed, subs, pc, todo,
                    op, ret, log, pairCb, scans, sigSeen, cb, cbTodo, gbd, ep >>

(* an adapter is switched off from outside (rfkill): its discovery ends    *)
EnvPowerOff(a) ==
    /\ powered[a]
    /\ powered' = [powered EXCEPT ![a] = FALSE]
    /\ discovering' = discovering \ {a}
    /\ ep' = IF ep.adapter = a THEN NoEp ELSE ep
    /\ UNCHANGED << stack, catalog, loopRunning, timerArmed, subs, pc, todo, op, ret, log,
                    pairCb, scans, sigSeen, cb, cbTodo, gbd >>

(* ---------------------------------------------------------------------- *)
(* BtDbusManager.get_bt_devices                                            *)
(* ---------------------------------------------------------------------- *)
(* for filter in filters: the first key the device lacks raises KeyError,  *)
(* the first value that differs rejects the device                         *)
RECURSIVE FilterLoop(_, _, _)
FilterLoop(obj, filters, i) ==
    IF i > Len(filters) THEN "passed"
    ELSE IF filters[i][1] \notin DOMAIN obj THEN "KeyError"
    ELSE IF obj[filters[i][1]] # filters[i][2] THEN "rejected"
    ELSE FilterLoop(obj, filters, i + 1)

(* the body of the try with obj.get(filter, filters[filter]) in the place  *)
(* of obj[filter]: a property the device lacks no longer rejects it        *)
DeviceVerdict_Lenient(obj, category, filters) ==
    IF category # BT_ANY /\ "Class" \notin DOMAIN obj THEN "KeyError"
    ELSE IF category # BT_ANY /\ obj["Class"] # category THEN "continue"
    ELSE IF \A i \in 1..Len(filters) :
                filters[i][1] \in DOMAIN obj => obj[filters[i][1]] = filters[i][2]
         THEN "yield" ELSE "continue"

(* the body of the try for one device: "yield", "continue" or "KeyError"   *)
(* (which the except clause logs and turns into continue)                  *)
DeviceVerdict(obj, category, filters) ==
    IF category # BT_ANY /\ "Class" \notin DOMAIN obj THEN "KeyError"
    ELSE IF category # BT_ANY /\ obj["Class"] # category THEN "continue"
    ELSE LET r == FilterLoop(obj, filters, 1)
         IN  IF r = "passed" THEN "yield"
             ELSE IF r = "rejected" THEN "continue"
             ELSE "KeyError"

(* the generator starts: one GetManagedObjects() gives the device objects  *)
GbdBegin(category, filters) ==
    /\ pc = "idle"
    /\ pc' = "gbd_for"
    /\ op' = Called("get_bt_devices", "")
    /\ gbd' = [NoGbd EXCEPT !.category = category, !.filters = filters,
                            !.snapshot = GetObjectsByIface(DEVICE_IFACE)]
    /\ todo' = GetObjectsByIface(DEVICE_IFACE)
    /\ log' = << >>
    /\ ret' = NoResult
    /\ pairCb' = NoCb
    /\ ep' = NoEp
    /\ UNCHANGED << stack, bluez, loopRunning, timerArmed, subs, scans, sigSeen, cb, cbTodo >>

(* one turn of the for loop.  get_object_by_path(path)[DEVICE_IFACE] is a  *)
(* second GetManagedObjects(), read before the try: a path that is gone    *)
(* raises KeyError out of the generator.                                   *)
GbdStep(d) ==
    /\ pc = "gbd_for"
    /\ d \in todo
    /\ IF d \notin DOMAIN ManagedObjects
       THEN /\ pc' = "idle"
            /\ op' = Ended("raised")
            /\ todo' = {}
            /\ log' = log \o << Ev("raise", d) >>
            /\ UNCHANGED gbd
       ELSE LET obj == ManagedObjects[d][DEVICE_IFACE]
                v == DeviceVerdict(obj, gbd.category, gbd.filters)
            IN  /\ gbd' = [gbd EXCEPT
                     !.read = [x \in DOMAIN gbd.read \cup {d} |->
                                  IF x = d THEN obj ELSE gbd.read[x]],
                     !.yielded = IF v = "yield" THEN @ \cup {d} ELSE @,
                     !.keyErrors = IF v = "KeyError" THEN @ \cup {d} ELSE @]
                /\ log' = IF v = "KeyError"
                          THEN log \o << Ev("logger.info", d) >> ELSE log
                /\ todo' = todo \ {d}
                /\ UNCHANGED << pc, op >>
    /\ UNCHANGED << stack, bluez, loopRunning, timerArmed, subs, ret, pairCb, scans,
                    sigSeen, cb, cbTodo, ep >>

(* the generator is exhausted                                              *)
GbdEnd ==
    /\ pc = "gbd_for"
    /\ todo = {}
    /\ pc' = "idle"
    /\ op' = Ended("returned")
    /\ UNCHANGED << stack, bluez, loopRunning, timerArmed, subs, todo, ret, log, pairCb,
                    scans, sigSeen, cb, cbTodo, gbd, ep >>

(* ---------------------------------------------------------------------- *)
(* BtAdapter.ensure_powered (with set_bool_prop)                           *)
(* ---------------------------------------------------------------------- *)
(* ensure_powered as it would be without `if powered: return`             *)
EnsurePowered_NoCheck(a, setOk) ==
    /\ pc = "idle"
    /\ ep.adapter = a => ep.calls < MaxEpCalls
    /\ LET before == IF ep.adapter # a
                     THEN [adapter |-> a, calls |-> 0, sets |-> << >>,
                           initPowered |-> powered[a]]
                     ELSE ep
       IN  /\ ep' = [before EXCEPT !.calls = @ + 1,
                       !.sets = Append(@, IF setOk THEN "ok" ELSE "failed")]
           /\ powered' = [powered EXCEPT ![a] = setOk]
           /\ log' = << Ev("Get", a), Ev("Set", a) >>
    /\ op' = [name |-> "ensure_powered", outcome |-> "returned", arg |-> a]
    /\ ret' = NoResult
    /\ pairCb' = NoCb
    /\ gbd' = NoGbd
    /\ UNCHANGED << stack, discovering, catalog, loopRunning, timerArmed, subs, pc, todo,
                    scans, sigSeen, cb, cbTodo >>

(* ensure_powered as it would be with set_bool_prop outside the try       *)
EnsurePowered_NoTry(a, setOk) ==
    /\ pc = "idle"
    /\ ep.adapter = a => ep.calls < MaxEpCalls
    /\ LET before == IF ep.adapter # a
                     THEN [adapter |-> a, calls |-> 0, sets |-> << >>,
                           initPowered |-> powered[a]]
                     ELSE ep
       IN  IF powered[a]
           THEN /\ ep' = [before EXCEPT !.calls = @ + 1]
                /\ log' = << Ev("Get", a), Ev("logger.info", "already powered") >>
                /\ op' = [name |-> "ensure_powered", outcome |-> "returned", arg |-> a]
                /\ UNCHANGED powered
           ELSE /\ ep' = [before EXCEPT !.calls = @ + 1,
                            !.sets = Append(@, IF setOk THEN "ok" ELSE "failed")]
                /\ powered' = [powered EXCEPT ![a] = setOk]
                /\ log' = << Ev("Get", a), Ev("Set", a),
                             IF setOk THEN Ev("logger.info", "Powered on")
                             ELSE Ev("raise", "ensure_powered") >>
                /\ op' = [name |-> "ensure_powered",
                          outcome |-> IF setOk THEN "returned" ELSE "raised", arg |-> a]
    /\ ret' = NoResult
    /\ pairCb' = NoCb
    /\ gbd' = NoGbd
    /\ UNCHANGED << stack, discovering, catalog, loopRunning, timerArmed, subs, pc, todo,
                    scans, sigSeen, cb, cbTodo >>

(* setOk: whether BlueZ carries out Set(IFACE, 'Powered', True)            *)
EnsurePowered(a, setOk) ==
    /\ pc = "idle"
    /\ ep.adapter = a => ep.calls < MaxEpCalls
    /\ LET first == ep.adapter # a
           before == IF first
                     THEN [adapter |-> a, calls |-> 0, sets |-> << >>,
                           initPowered |-> powered[a]]
                     ELSE ep
       IN  IF powered[a]
           THEN /\ ep' = [before EXCEPT !.calls = @ + 1]
                /\ log' = << Ev("Get", a), Ev("logger.info", "already powered") >>
                /\ UNCHANGED powered
           ELSE /\ ep' = [before EXCEPT !.calls = @ + 1,
                            !.sets = Append(@, IF setOk THEN "ok" ELSE "failed")]
                /\ powered' = [powered EXCEPT ![a] = setOk]
                /\ log' = << Ev("Get", a), Ev("Set", a),
                             IF setOk THEN Ev("logger.info", "Powered on")
                             ELSE Ev("logging.error", "Failed to power on") >>
    /\ op' = [name |-> "ensure_powered", outcome |-> "returned", arg |-> a]
    /\ ret' = NoResult
    /\ pairCb' = NoCb
    /\ gbd' = NoGbd
    /\ UNCHANGED << stack, discovering, catalog, loopRunning, timerArmed, subs, pc, todo,
                    scans, sigSeen, cb, cbTodo >>

(* ---------------------------------------------------------------------- *)
(* ---------------------------------------------------------------------- *)
(* BtDevice.unpair: Disconnect(), outside any try; the device is not       *)
(* removed (RemoveDevice is only named in a comment)                       *)
(* ---------------------------------------------------------------------- *)
Unpair(d, disconnectOk) ==
    /\ pc = "idle"
    /\ log' = << Ev("Disconnect", d) >>
                 \o (IF disconnectOk THEN << >> ELSE << Ev("raise", "unpair") >>)
    /\ op' = [name |-> "unpair",
              outcome |-> IF disconnectOk THEN "returned" ELSE "raised", arg |-> d]
    /\ ret' = NoResult
    /\ pairCb' = NoCb
    /\ gbd' = NoGbd
    /\ ep' = NoEp
    /\ UNCHANGED << stack, bluez, loopRunning, timerArmed, subs, pc, todo, scans,
                    sigSeen, cb, cbTodo >>

(* ---------------------------------------------------------------------- *)
(* BtDbusManager.get_bt_adapters, consumed to its end: a BtAdapter for     *)
(* every object with the adapter interface                                 *)
(* ---------------------------------------------------------------------- *)
GetBtAdapters ==
    /\ pc = "idle"
    /\ log' = << >>
    /\ op' = [name |-> "get_bt_adapters", outcome |-> "returned", arg |-> ""]
    /\ ret' = [kind |-> "BtAdapters", reason |-> "",
               devices |-> GetObjectsByIface(ADAPTER_IFACE)]
    /\ pairCb' = NoCb
    /\ gbd' = NoGbd
    /\ ep' = NoEp
    /\ UNCHANGED << stack, bluez, loopRunning, timerArmed, subs, pc, todo, scans,
                    sigSeen, cb, cbTodo >>

(* ---------------------------------------------------------------------- *)
(* scanning, pairing and powering on one manager                          *)
Next ==
    \/ ScanBegin
    \/ \E a \in Adapters : ScanDiscover(a)
    \/ ScanArm
    \/ ScanReturn
    \/ ScanTimeoutFire
    \/ \E a \in Adapters : ScanTimeoutStop(a)
    \/ ScanTimeoutQuit
    \/ \E d \in DevPaths : PairBegin(d)
    \/ PairOk
    \/ \E r \in Reasons : PairError(r)
    \/ \E ok \in BOOLEAN : PairResume(ok)
    \/ \E a \in Adapters, ok \in BOOLEAN : EnsurePowered(a, ok)
    \/ \E d \in DevPaths, ok \in BOOLEAN : Unpair(d, ok)
    \/ GetBtAdapters
    \/ \E d \in DevPaths, p \in SeenProps : EnvDeviceFound(d, p)
    \/ \E d \in DevPaths, p \in SeenProps : EnvDeviceChanged(d, p)
    \/ \E d \in DevPaths : EnvDeviceRemoved(d)
    \/ \E a \in Adapters : EnvPowerOff(a)

Spec == Init /\ [][Next]_vars

(* ---------------------------------------------------------------------- *)
(* Enumerating the devices BlueZ remembers from earlier discovery, while   *)
(* BlueZ drops them                                                        *)
(* ---------------------------------------------------------------------- *)
Catalogs == UNION { [present -> DevProps] : present \in SUBSET DevPaths }

InitDevices ==
    /\ powered = [a \in Adapters |-> FALSE]
    /\ discovering = {}
    /\ catalog \in Catalogs
    /\ loopRunning = FALSE
    /\ timerArmed = 0
    /\ subs = 0
    /\ pc = "idle"
    /\ todo = {}
    /\ op = NoOp
    /\ ret = NoResult
    /\ log = << >>
    /\ pairCb = NoCb
    /\ scans = 0
    /\ sigSeen = 0
    /\ cb = "none"
    /\ cbTodo = {}
    /\ gbd = NoGbd
    /\ ep = NoEp
    /\ stack = << >>

NextDevices ==
    \/ \E c \in Categories, f \in FilterDicts : GbdBegin(c, f)
    \/ \E d \in DevPaths : GbdStep(d)
    \/ GbdEnd
    \/ \E d \in DevPaths : EnvDeviceRemoved(d)

SpecDevices == InitDevices /\ [][NextDevices]_vars

(* ---------------------------------------------------------------------- *)
(* Blocking calls made from inside a callback that the main loop runs      *)
(* (a caller's own timeout or idle source on the shared GLib context),     *)
(* while scan() or pair() is suspended in run().  wait, scan and pair      *)
(* test nothing before they act: the call below issues its requests and    *)
(* calls run() on the loop that is already running.  One quit() then ends  *)
(* every run() of that loop, the innermost first.                          *)
(* ---------------------------------------------------------------------- *)
Frame == [pc |-> pc, op |-> op, log |-> log, pairCb |-> pairCb]

(* scan() called while a call is suspended: lines 107-115                  *)
ReenterScan ==
    /\ Dispatching
    /\ Len(stack) < MaxNest
    /\ scans < MaxScans
    /\ stack' = Append(stack, Frame)
    /\ scans' = scans + 1
    /\ subs' = subs + 2
    /\ todo' = GetObjectsByIface(ADAPTER_IFACE)
    /\ pc' = "scan_for"
    /\ op' = Called("scan", "")
    /\ log' = << Ev("add_signal_receiver", "InterfacesAdded"),
                 Ev("add_signal_receiver", "PropertiesChanged") >>
    /\ pairCb' = NoCb
    /\ UNCHANGED << bluez, loopRunning, timerArmed, ret, sigSeen, cb, cbTodo, gbd, ep >>

(* pair() called while a call is suspended: lines 163-165                  *)
ReenterPair(d) ==
    /\ Dispatching
    /\ Len(stack) < MaxNest
    /\ stack' = Append(stack, Frame)
    /\ pc' = "pair_wait"
    /\ loopRunning' = TRUE
    /\ op' = Called("pair", d)
    /\ log' = << Ev("Pair", d), Ev("run", "") >>
    /\ pairCb' = NoCb
    /\ UNCHANGED << bluez, timerArmed, subs, todo, ret, scans, sigSeen, cb, cbTodo,
                    gbd, ep >>

(* the call made from the callback has ended: the callback returns to the  *)
(* loop, and the call suspended below is the running one again             *)
ReenterEnd ==
    /\ stack # << >>
    /\ pc = "idle"
    /\ LET f == stack[Len(stack)]
       IN  /\ pc' = f.pc
           /\ op' = f.op
           /\ log' = f.log
           /\ pairCb' = f.pairCb
    /\ stack' = SubSeq(stack, 1, Len(stack) - 1)
    /\ UNCHANGED << bluez, loopRunning, timerArmed, subs, todo, ret, scans, sigSeen,
                    cb, cbTodo, gbd, ep >>

(* BlueZ answers the Pair() of a pair() suspended below: its callback      *)
(* (_pair_ok or _pair_error) runs in the innermost run() and quits the loop *)
SuspendedPairReply(i, kind) ==
    /\ Dispatching
    /\ i \in 1..Len(stack)
    /\ stack[i].op.name = "pair"
    /\ stack[i].pairCb.kind = "none"
    /\ kind = "ok" => stack[i].op.arg \in DOMAIN catalog
    /\ stack' = [stack EXCEPT ![i].pairCb = [kind |-> kind, reason |-> ""],
                              ![i].log = @ \o << Ev("_pair_" \o kind, ""),
                                                 Ev("quit", "_pair_" \o kind) >>]
    /\ loopRunning' = FALSE
    /\ UNCHANGED << bluez, timerArmed, subs, pc, todo, op, ret, log, pairCb, scans,
                    sigSeen, cb, cbTodo, gbd, ep >>

InitReentrant ==
    /\ powered = [a \in Adapters |-> FALSE]
    /\ discovering = {}
    /\ catalog = [d \in {"dev_A"} |->
                    [Address |-> 1, Paired |-> 0, Class |-> BT_KEYBOARD, Name |-> 7]]
    /\ loopRunning = FALSE
    /\ timerArmed = 0
    /\ subs = 0
    /\ pc = "idle"
    /\ todo = {}
    /\ op = NoOp
    /\ ret = NoResult
    /\ log = << >>
    /\ pairCb = NoCb
    /\ scans = 0
    /\ sigSeen = 0
    /\ cb = "none"
    /\ cbTodo = {}
    /\ gbd = NoGbd
    /\ ep = NoEp
    /\ stack = << >>

NextReentrant ==
    \/ /\ stack = << >>
       /\ \/ ScanBegin
          \/ \E d \in DevPaths : PairBegin(d)
          \/ \E a \in Adapters, ok \in BOOLEAN : EnsurePowered(a, ok)
          \/ \E d \in DevPaths, ok \in BOOLEAN : Unpair(d, ok)
          \/ GetBtAdapters
    \/ \E a \in Adapters : ScanDiscover(a)
    \/ ScanArm
    \/ ScanReturn
    \/ ScanTimeoutFire
    \/ \E a \in Adapters : ScanTimeoutStop(a)
    \/ ScanTimeoutQuit
    \/ PairOk
    \/ \E r \in Reasons : PairError(r)
    \/ \E ok \in BOOLEAN : PairResume(ok)
    \/ ReenterScan
    \/ \E d \in DevPaths : ReenterPair(d)
    \/ ReenterEnd
    \/ \E i \in 1..MaxNest, kind \in {"ok", "error"} : SuspendedPairReply(i, kind)
    \/ \E a \in Adapters : EnvPowerOff(a)

SpecReentrant == InitReentrant /\ [][NextReentrant]_vars


(* ---------------------------------------------------------------------- *)
(* Properties                                                              *)
(* ---------------------------------------------------------------------- *)
Count(e) == Cardinality({ i \in 1..Len(log) : log[i].e = e })
Issued(e, x) == \E i \in 1..Len(log) : log[i] = Ev(e, x)
InPair == op.name = "pair"
InScan == op.name = "scan"
InGbd == op.name = "get_bt_devices"
Returned == op.outcome = "returned"

NoConnectAfterPairError ==
    (InPair /\ pairCb.kind = "error") => Count("Connect") = 0

(* C3: the value pair() hands back is Success after the success callback   *)
(* and Failure(R) with the remote reason R after the failure callback.     *)
PairResultRecordsOutcome ==
    (InPair /\ Returned) =>
        ret = IF pairCb.kind = "ok"
              THEN [kind |-> "Success", reason |-> "", devices |-> {}]
              ELSE [kind |-> "Failure", reason |-> pairCb.reason, devices |-> {}]

(* C4: once the timer callback of a scan has run, the main loop has been   *)
(* quit (so scan() returns), also when a StopDiscovery in it failed.       *)
TimerCallbackExitsLoop ==
    (InScan /\ Count("_scan_timeout") > 0 /\ cb = "none") => ~loopRunning

(* C5: while a scan waits the main loop keeps running until the timer      *)
(* callback has run, whatever signals arrive; the timer callback runs at   *)
(* most once in a scan, and a scan() that has returned was ended by its    *)
(* one timer callback.                                                     *)
ScanWaitEndsOnlyByTimer ==
    InScan =>
        /\ Count("_scan_timeout") <= 1
        /\ (pc = "scan_wait" /\ Count("_scan_timeout") = 0) => loopRunning
        /\ Returned => /\ Count("_scan_timeout") = 1
                       /\ Count("quit") = 1
                       /\ Issued("quit", "_scan_timeout")
                       /\ timerArmed = 0
(* a scan has returned after its handlers saw signals                      *)
ScanReturnedAfterSignals ==
    InScan /\ Returned /\ sigSeen >= 2

(* C6: a scan() call that has ended was not aborted: it tried              *)
(* StartDiscovery on every adapter, armed the timer and ran the loop.      *)
ScanSurvivesStartFailure ==
    (InScan /\ pc = "idle") =>
        /\ Returned
        /\ \A a \in Adapters : Issued("StartDiscovery", a)
        /\ Count("timeout_add") = 1
        /\ Count("run") = 1

(* C7: get_bt_devices(C, F) yields a device it has read iff C is BT_ANY or *)
(* the device has a Class equal to C, and every key of F is a property of  *)
(* the device with F's value; a missing Class or filtered property makes   *)
(* it a non-match that does not end the enumeration.                       *)
ClaimMatch(D, C, F) ==
    /\ (C = BT_ANY \/ ("Class" \in DOMAIN D /\ D["Class"] = C))
    /\ \A i \in 1..Len(F) : F[i][1] \in DOMAIN D /\ D[F[i][1]] = F[i][2]
FilterYieldsExactlyMatches ==
    InGbd =>
        /\ gbd.yielded \subseteq DOMAIN gbd.read
        /\ \A d \in DOMAIN gbd.read :
              d \in gbd.yielded <=> ClaimMatch(gbd.read[d], gbd.category, gbd.filters)
        /\ gbd.keyErrors \cap gbd.yielded = {}
        /\ (gbd.keyErrors # {} /\ todo # {}) => pc = "gbd_for"
(* an enumeration has returned: one device lacked a property asked for,    *)
(* another matched                                                         *)
FilterSkippedAndYielded ==
    InGbd /\ Returned /\ gbd.keyErrors # {} /\ gbd.yielded # {} /\ gbd.filters # << >>

(* C8: an enumeration that has ended did not fail, and has evaluated every *)
(* device of its snapshot that BlueZ still has.                            *)
VanishedDeviceSkipped ==
    (InGbd /\ pc = "idle") =>
        /\ Returned
        /\ \A d \in gbd.snapshot \cap DOMAIN catalog : d \in DOMAIN gbd.read

(* C9 as stated: two successive ensure_powered calls issue at most one     *)
(* power-set request, and none when the adapter was powered at the first.  *)
EnsurePoweredTwiceOneSet ==
    ep.calls = 2 => /\ Len(ep.sets) <= 1
                    /\ ep.initPowered => Len(ep.sets) = 0
(* C9 as amended: successive ensure_powered calls issue at most one        *)
(* power-set request each, none when the adapter was powered at the first  *)
(* call, and none after a request that succeeded.                          *)
EnsurePoweredIdempotentOnceOn ==
    /\ Len(ep.sets) <= ep.calls
    /\ ep.initPowered => Len(ep.sets) = 0
    /\ \A i \in 1..Len(ep.sets) : ep.sets[i] = "ok" => i = Len(ep.sets)
(* the first of two successive calls powered the adapter, the second       *)
(* found it powered                                                        *)
EnsurePoweredSecondCallNoop ==
    ep.calls = 2 /\ ep.sets = << "ok" >> /\ ~ep.initPowered

(* C10: the second of two scan() calls on one manager, once ended, has     *)
(* issued StartDiscovery on every adapter, armed one timer, waited for it  *)
(* and issued StopDiscovery on every adapter at its timeout.               *)
SecondScanIndependent ==
    (InScan /\ scans = 2 /\ pc = "idle") =>
        /\ Returned
        /\ \A a \in Adapters : Issued("StartDiscovery", a)
        /\ Count("timeout_add") = 1
        /\ Count("_scan_timeout") = 1
        /\ \A a \in Adapters :
              \E i, j \in 1..Len(log) :
                 i < j /\ log[i].e = "_scan_timeout" /\ log[j] = Ev("StopDiscovery", a)

(* C12: the value a scan() hands back is the set of the devices that are   *)
(* in the catalog when it completes and match the filters (here: any       *)
(* class, no property filter).                                             *)
ScanReturnsMatchingDevices ==
    [][ (pc = "scan_wait" /\ pc' = "idle") =>
          /\ ret'.kind = "Devices"
          /\ ret'.devices = { d \in DOMAIN catalog' :
                                ClaimMatch(catalog'[d], BT_ANY, << >>) } ]_vars

(* C13: within a scan both signal receivers are registered before any     *)
(* StartDiscovery, every StartDiscovery directly follows a StopDiscovery   *)
(* on the same adapter (whose failure does not end the scan), the timer is *)
(* armed after StartDiscovery was tried on every adapter, and the loop is  *)
(* entered after the timer was armed.                                      *)
Before(i, e, x) == \E j \in 1..(i - 1) : log[j] = Ev(e, x)
ScanStepsInOrder ==
    InScan =>
        \A i \in 1..Len(log) :
            /\ log[i].e = "StartDiscovery" =>
                  /\ Before(i, "add_signal_receiver", "InterfacesAdded")
                  /\ Before(i, "add_signal_receiver", "PropertiesChanged")
                  /\ log[i - 1] = Ev("StopDiscovery", log[i].x)
            /\ log[i].e = "timeout_add" =>
                  \A a \in Adapters : Before(i, "StartDiscovery", a)
            /\ log[i].e = "run" => Before(i, "timeout_add", "_scan_timeout")
(* the first scan of a manager waits in the loop: every StopDiscovery      *)
(* ahead of its StartDiscovery failed, as no discovery was active          *)
FirstScanWaiting ==
    InScan /\ scans = 1 /\ pc = "scan_wait" /\ loopRunning /\ Count("run") = 1

(* C14: once the timer callback of a scan has run, StopDiscovery has been  *)
(* issued in it on every adapter, whatever failed.                         *)
StopIssuedAfter(a) ==
    \E i, j \in 1..Len(log) :
        i < j /\ log[i].e = "_scan_timeout" /\ log[j] = Ev("StopDiscovery", a)
TimerStopsEveryAdapter ==
    (InScan /\ Count("_scan_timeout") > 0 /\ cb = "none") =>
        \A a \in Adapters : StopIssuedAfter(a)

(* C15: a pair() resolved by the success callback issues no Connect()      *)
(* while it waits and exactly one after the callback has quit the loop,    *)
(* and ends by returning, also when that Connect() failed.                 *)
PairOkConnectsOnce ==
    InPair =>
        /\ pc = "pair_wait" => Count("Connect") = 0
        /\ pc = "idle" => Returned
        /\ (Returned /\ pairCb.kind = "ok") =>
              /\ Count("Connect") = 1
              /\ \A i \in 1..Len(log) :
                    log[i].e = "Connect" => Before(i, "quit", "_pair_ok")
(* a pair() resolved by the success callback has returned after its        *)
(* Connect() failed                                                        *)
PairOkConnectFailed ==
    InPair /\ Returned /\ pairCb.kind = "ok"
           /\ Issued("logging.error", "Failed to connect")

(* C16: in the log of an operation nothing a callback does follows the     *)
(* quit() of that callback: the pair callbacks log first, the timer        *)
(* callback issues its StopDiscovery requests first.                       *)
CallbackEffects == {"logger.info", "logger.warning", "StopDiscovery"}
QuitComesLast ==
    \A i \in 1..Len(log) :
        log[i].e = "quit" =>
            /\ \A j \in (i + 1)..Len(log) : log[j].e \notin CallbackEffects
            /\ log[i].x = "_pair_ok" =>
                  log[i - 1] = Ev("logger.info", "successfully paired")
            /\ log[i].x = "_pair_error" => log[i - 1].e = "logger.warning"
            /\ log[i].x = "_scan_timeout" =>
                  \A a \in Adapters : StopIssuedAfter(a)
(* a pair() has returned after its success callback quit the loop          *)
PairOkQuitLogged ==
    InPair /\ Returned /\ Issued("quit", "_pair_ok")

(* C17: an ensure_powered whose power-set request failed has returned,     *)
(* has issued that one request only, and has left the adapter off.         *)
EnsurePoweredFailureTolerated ==
    op.name = "ensure_powered" =>
        /\ Returned
        /\ Count("Set") <= 1
        /\ Issued("logging.error", "Failed to power on") =>
              (Count("Set") = 1 /\ ~powered[op.arg])
(* an ensure_powered call whose request failed                             *)
EnsurePoweredSetFailed ==
    op.name = "ensure_powered" /\ Issued("logging.error", "Failed to power on")

(* C19: after a scan has returned the manager holds no more signal         *)
(* receivers than one scan registers, no timer is armed and the loop is    *)
(* not running.                                                            *)
ScanStateReset ==
    (InScan /\ Returned) => (subs <= 2 /\ timerArmed = 0 /\ ~loopRunning)

(* C11: a scan() or pair() called while another call is suspended on the   *)
(* main loop has been rejected: it has ended by raising, with no request   *)
(* issued, no timer armed and the loop not entered by it.                  *)
SecondBlockingCallRejected ==
    stack # << >> =>
        /\ pc = "idle"
        /\ op.outcome = "raised"
        /\ log = << >>

(* C18: at most one call is suspended on the main loop; only scan() and    *)
(* pair() are ever inside it; unpair issues one Disconnect() and nothing   *)
(* that removes the device.                                                *)
Suspended == Len(stack) + (IF pc \in WaitStates THEN 1 ELSE 0)
OneCallSuspendedAtMost ==
    /\ Suspended <= 1
    /\ loopRunning => op.name \in {"scan", "pair"}
    /\ op.name \in {"get_bt_adapters", "get_bt_devices", "ensure_powered", "unpair"}
          => (Count("run") = 0 /\ ~loopRunning)
    /\ op.name = "unpair" =>
          (Count("Disconnect") = 1 /\ Count("RemoveDevice") = 0)
(* the same, for a caller that makes its calls one after the other         *)
LoopOnlyForScanAndPair ==
    /\ stack = << >>
    /\ loopRunning => (pc \in WaitStates /\ op.name \in {"scan", "pair"})
    /\ op.name \in {"get_bt_adapters", "get_bt_devices", "ensure_powered", "unpair"}
          => (Count("run") = 0 /\ ~loopRunning)
    /\ op.name = "unpair" =>
          (Count("Disconnect") = 1 /\ Count("RemoveDevice") = 0)

====
